---- MODULE Spec2Model ----
(***************************************************************************)
(* Model of the SessionManager of 5-session-cleaner/main.go: three maps    *)
(* guarded by one sync.RWMutex, client calls CreateSession,                *)
(* GetSessionData and UpdateSessionData, and the background goroutine      *)
(* removeExpiredSessionsWorker driven by a one-second ticker.              *)
(*                                                                         *)
(* Time is wall-clock time in milliseconds.  Every lock acquisition is a   *)
(* step of its own, so that goroutines interleave exactly where the code   *)
(* lets them.                                                              *)
(***************************************************************************)
EXTENDS Integers, Sequences, FiniteSets, TLC

\* ---------------------------------------------------------------- bounds
NumClients == 2          \* client goroutines calling the manager
MaxSessions == 1         \* session identifiers MakeSessionID can hand out
MaxWrites == 2           \* CreateSession and UpdateSessionData calls that reach the maps
StartSecond == 52        \* wall-clock second at which the manager is built
Horizon == 10            \* seconds of wall-clock time that are explored
FairSeconds == 1          \* seconds explored when termination is examined
NumRequests == 2         \* HandleRequest calls made for the user
UsedBefore == 8          \* least TimeUsed the user brings to the first of them
MaxTimeUsed == 11        \* ticks are delivered while TimeUsed is below this
MaxSignals == 4          \* SIGINTs sent to the program in one behaviour

\* instants within a second at which something can happen
Offsets == {0, 5, 500}

\* ------------------------------------------------------ program constants
ttlSeconds == 5
Second == 1000           \* time.Second, in milliseconds
Tolerance == 10          \* the 10 * time.Millisecond of the worker
SecondsPerMinute == 60   \* range of time.Time.Second()
maxFreeProcessingTimeSeconds == 10
SignalBuffer == 2        \* make(chan os.Signal, 2)

Clients == 1 .. NumClients
Requests == 1 .. NumRequests
SessionIDs == 1 .. MaxSessions
Payloads == {"p1", "p2"}
Empty == "empty"         \* make(map[string]interface{})
Nil == "nil"
NoID == 0                \* the "" identifier
Worker == 0              \* the worker goroutine, as a lock holder
NoOne == -1

ErrSessionNotFound == "ErrSessionNotFound"
ErrMakeSessionID == "ErrMakeSessionID"

EndOfTime == (StartSecond + Horizon) * Second

VARIABLES
    clock,               \* wall-clock time, ms
    nextTick,            \* when expirationCheckTicker fires next
    tickPending,         \* a tick sits in expirationCheckTicker.C
    sessions,            \* m.sessions: id -> Data
    sessionExpirations,  \* m.sessionExpirations: id -> time
    expirationChecks,    \* m.expirationChecks: key -> sequence of ids
    writer,              \* holder of m.mutex in write mode
    pending,             \* the goroutine inside m.mutex.Lock() .. Unlock()
    readers,             \* holders of m.mutex in read mode
    pc,                  \* position of each client goroutine
    arg,                 \* arguments / locals of the running call
    ret,                 \* what the call that returned last returned, and to whom
    wpc,                 \* position of the worker goroutine
    wNow,                \* the worker's local now
    wKey,                \* the worker's local key
    wExpired,            \* the worker's local expiredSessionIDs
    issued,              \* identifiers handed out by MakeSessionID
    writes,              \* CreateSession and UpdateSessionData calls started so far
    reclaimed,           \* history: ids the worker has deleted from sessions
    lastWrite,           \* history: id -> time of its last successful write
    committed,           \* history: id -> payload of the last applied write
    \* 3-limit-service-time
    user,                \* the User of the requests: IsPremium, TimeUsed
    hpc,                 \* position of each HandleRequest call
    tpc,                 \* position of the call's ticker goroutine
    ppc,                 \* position of the call's process goroutine
    tickerC,             \* ticks buffered in the call's ticker.C (at most one)
    tickerStopped,       \* ticker.Stop() has run
    loaded,              \* the TimeUsed the ticker goroutine has read for += 1
    doneFrom,            \* which goroutine's send the call received from doneCh
    result,              \* what the call returned
    \* 4-graceful-sigint
    mpc,                 \* position of main
    shutdownSignal,      \* signals buffered in the shutdownSignal channel
    raised,              \* SIGINTs sent to the program so far
    received,            \* signals main has taken from shutdownSignal
    runG,                \* the goroutine of proc.Run()
    stopG,               \* the goroutine of proc.Stop()
    stopCalls            \* go proc.Stop() statements executed

mapVars == <<sessions, sessionExpirations, expirationChecks>>
lockVars == <<writer, readers, pending>>
timeVars == <<clock, nextTick, tickPending>>
clientVars == <<pc, arg, ret, issued, writes>>
workerVars == <<wpc, wNow, wKey, wExpired>>
histVars == <<reclaimed, lastWrite, committed>>
limitVars == <<user, hpc, tpc, ppc, tickerC, tickerStopped, loaded, doneFrom, result>>
sigintVars == <<mpc, shutdownSignal, raised, received, runG, stopG, stopCalls>>
vars == <<clock, nextTick, tickPending, sessions, sessionExpirations,
          expirationChecks, writer, readers, pending, pc, arg, ret, wpc, wNow,
          wKey, wExpired, issued, writes, reclaimed, lastWrite, committed>>

\* ------------------------------------------------------------ Go helpers
\* m[k] = v
MapPut(m, k, v) == [x \in DOMAIN m \cup {k} |-> IF x = k THEN v ELSE m[x]]

\* delete(m, k) for every k in ks
MapDelete(m, ks) == [x \in DOMAIN m \ ks |-> m[x]]

\* m[k] of a map of slices: the nil slice when k is absent
MapGetSlice(m, k) == IF k \in DOMAIN m THEN m[k] ELSE <<>>

\* time.Time.Second(): the second within the minute
SecondOf(t) == (t \div Second) % SecondsPerMinute

\* strconv.Itoa(t.Second()): injective, so the key is the number itself
KeyOf(t) == SecondOf(t)

Range(s) == {s[i] : i \in 1 .. Len(s)}

NoRet == [to |-> NoOne, op |-> "none", id |-> NoID, data |-> Nil, err |-> Nil]
NoArg == [id |-> NoID, data |-> Nil]

\* ------------------------------------------------------------------ Init
\* NewSessionManager() has returned
SessionInit ==
    /\ clock = StartSecond * Second
    /\ nextTick = clock + Second
    /\ tickPending = FALSE
    /\ sessions = <<>>
    /\ sessionExpirations = <<>>
    /\ expirationChecks = <<>>
    /\ writer = NoOne
    /\ readers = {}
    /\ pending = NoOne
    /\ pc = [c \in Clients |-> "idle"]
    /\ arg = [c \in Clients |-> NoArg]
    /\ ret = NoRet
    /\ wpc = "wait"
    /\ wNow = 0
    /\ wKey = 0
    /\ wExpired = <<>>
    /\ issued = 0
    /\ writes = 0
    /\ reclaimed = {}
    /\ lastWrite = <<>>
    /\ committed = <<>>

\* users who have used part of their free time in earlier calls
Users ==
    {[IsPremium |-> b, TimeUsed |-> t] :
        b \in BOOLEAN, t \in UsedBefore .. maxFreeProcessingTimeSeconds - 1}

\* no HandleRequest call made yet for the user
LimitInit ==
    /\ user \in Users
    /\ hpc = [r \in Requests |-> "idle"]
    /\ tpc = [r \in Requests |-> "off"]
    /\ ppc = [r \in Requests |-> "off"]
    /\ tickerC = [r \in Requests |-> 0]
    /\ tickerStopped = [r \in Requests |-> FALSE]
    /\ loaded = [r \in Requests |-> 0]
    /\ doneFrom = [r \in Requests |-> "none"]
    /\ result = [r \in Requests |-> "none"]

\* main of 4-graceful-sigint has made the channel, called signal.Notify and
\* created proc
SigintInit ==
    /\ mpc = "goRun"
    /\ shutdownSignal = 0
    /\ raised = 0
    /\ received = 0
    /\ runG = "off"
    /\ stopG = "off"
    /\ stopCalls = 0

\* the session manager alone: the other two programs are not running
Init ==
    /\ SessionInit
    /\ LimitInit /\ ~user.IsPremium /\ user.TimeUsed = UsedBefore
    /\ SigintInit

\* ------------------------------------------------------------- sync.RWMutex
\* Lock() first takes the writers' mutex and announces the writer, which
\* keeps new readers out, and then waits until the readers in have left.
CanAnnounce == pending = NoOne
CanLock == writer = NoOne /\ readers = {}
CanRLock == writer = NoOne /\ pending = NoOne

\* --------------------------------------------------------------- the clock
\* the next instant after t at which something can happen
NextInstant(t) ==
    LET base == (t \div Second) * Second
        later == {base + o : o \in Offsets} \cup {base + Second + o : o \in Offsets}
    IN  CHOOSE u \in later : u > t /\ \A v \in later : v > t => u <= v

\* no call is running, the worker waits for a tick and none is pending
Quiescent ==
    /\ \A c \in Clients : pc[c] = "idle"
    /\ wpc = "wait"
    /\ ~tickPending

\* Time passes; the ticker sends a tick when its period is over, and the
\* callers have taken the results of the calls that returned.  Map and
\* lock operations take far less than the distance between two instants,
\* so time passes between calls and sweeps, not during them; calls and
\* sweeps that run at the same instant interleave in every order.
Advance ==
    /\ Quiescent
    /\ NextInstant(clock) <= EndOfTime
    /\ clock' = NextInstant(clock)
    /\ IF clock' >= nextTick
       THEN tickPending' = TRUE /\ nextTick' = nextTick + Second
       ELSE UNCHANGED <<tickPending, nextTick>>
    /\ ret' = NoRet
    /\ UNCHANGED <<pc, arg, issued, writes>>
    /\ UNCHANGED <<mapVars, lockVars, workerVars, histVars>>
    /\ UNCHANGED <<limitVars, sigintVars>>

\* ------------------------------------------------- updateSessionExpiration
ExpireAt(now) == now + ttlSeconds * Second

ExpirationsAfterUpdate(id, now) == MapPut(sessionExpirations, id, ExpireAt(now))

\* ChecksAfterUpdate as it would be with the bucket keyed by now
ChecksAfterUpdateKeyedByNow(id, now) ==
    LET key == KeyOf(now)
    IN  MapPut(expirationChecks, key, Append(MapGetSlice(expirationChecks, key), id))

ChecksAfterUpdate(id, now) ==
    LET key == KeyOf(ExpireAt(now))
    IN  MapPut(expirationChecks, key, Append(MapGetSlice(expirationChecks, key), id))

\* ------------------------------------------------------------ MakeSessionID
\* What MakeSessionID can return: an error with the empty identifier, or
\* an identifier that no earlier call has returned.
MakeSessionIDFailure == [id |-> NoID, err |-> ErrMakeSessionID]

MakeSessionIDSuccess == [id |-> issued + 1, err |-> Nil]

\* ------------------------------------------------------------ CreateSession
\* sessionID, err := MakeSessionID(); if err != nil { return "", err }
CreateFail(c) ==
    /\ pc[c] = "idle"
    /\ ret' = [to |-> c, op |-> "create", id |-> NoID, data |-> Nil,
               err |-> MakeSessionIDFailure.err]
    /\ UNCHANGED <<pc, arg, issued, writes>>
    /\ UNCHANGED <<mapVars, lockVars, timeVars, workerVars, histVars>>
    /\ UNCHANGED <<limitVars, sigintVars>>

\* sessionID, err := MakeSessionID() with err == nil
CreateBegin(c) ==
    /\ pc[c] = "idle"
    /\ issued < MaxSessions
    /\ writes < MaxWrites
    /\ writes' = writes + 1
    /\ issued' = issued + 1
    /\ arg' = [arg EXCEPT ![c] = [id |-> MakeSessionIDSuccess.id, data |-> Nil]]
    /\ pc' = [pc EXCEPT ![c] = "createLock"]
    /\ UNCHANGED ret
    /\ UNCHANGED <<mapVars, lockVars, timeVars, workerVars, histVars>>
    /\ UNCHANGED <<limitVars, sigintVars>>

\* m.mutex.Lock()
CreateLock(c) ==
    /\ pc[c] = "createLock"
    /\ pending = c
    /\ CanLock
    /\ writer' = c
    /\ pc' = [pc EXCEPT ![c] = "createPut"]
    /\ UNCHANGED <<readers, pending, arg, ret, issued, writes>>
    /\ UNCHANGED <<mapVars, timeVars, workerVars, histVars>>
    /\ UNCHANGED <<limitVars, sigintVars>>

\* m.sessions[sessionID] = Session{Data: make(...)}
CreatePut(c) ==
    /\ pc[c] = "createPut"
    /\ sessions' = MapPut(sessions, arg[c].id, Empty)
    /\ pc' = [pc EXCEPT ![c] = "createExpire"]
    /\ UNCHANGED <<sessionExpirations, expirationChecks>>
    /\ UNCHANGED <<arg, ret, issued, writes>>
    /\ UNCHANGED <<lockVars, timeVars, workerVars, histVars>>
    /\ UNCHANGED <<limitVars, sigintVars>>

\* m.updateSessionExpiration(sessionID); return sessionID, nil (and Unlock)
CreateExpire(c) ==
    /\ pc[c] = "createExpire"
    /\ sessionExpirations' = ExpirationsAfterUpdate(arg[c].id, clock)
    /\ expirationChecks' = ChecksAfterUpdate(arg[c].id, clock)
    /\ writer' = NoOne
    /\ pending' = NoOne
    /\ ret' = [to |-> c, op |-> "create", id |-> arg[c].id, data |-> Nil, err |-> Nil]
    /\ pc' = [pc EXCEPT ![c] = "idle"]
    /\ arg' = [arg EXCEPT ![c] = NoArg]
    /\ lastWrite' = MapPut(lastWrite, arg[c].id, clock)
    /\ committed' = MapPut(committed, arg[c].id, Empty)
    /\ UNCHANGED <<sessions, readers, issued, writes, reclaimed>>
    /\ UNCHANGED <<timeVars, workerVars>>
    /\ UNCHANGED <<limitVars, sigintVars>>

\* ----------------------------------------------------------- GetSessionData
\* m.mutex.RLock()
GetRLock(c, id) ==
    /\ pc[c] = "idle"
    /\ CanRLock
    /\ readers' = readers \cup {c}
    /\ arg' = [arg EXCEPT ![c] = [id |-> id, data |-> Nil]]
    /\ pc' = [pc EXCEPT ![c] = "getRead"]
    /\ UNCHANGED <<writer, pending, ret, issued, writes>>
    /\ UNCHANGED <<mapVars, timeVars, workerVars, histVars>>
    /\ UNCHANGED <<limitVars, sigintVars>>

\* GetRead as it would be if a read renewed the session's expiration
GetReadRenewing(c) ==
    /\ pc[c] = "getRead"
    /\ ret' = IF arg[c].id \in DOMAIN sessions
              THEN [to |-> c, op |-> "get", id |-> arg[c].id,
                    data |-> sessions[arg[c].id], err |-> Nil]
              ELSE [to |-> c, op |-> "get", id |-> arg[c].id,
                    data |-> Nil, err |-> ErrSessionNotFound]
    /\ IF arg[c].id \in DOMAIN sessions
       THEN /\ sessionExpirations' = ExpirationsAfterUpdate(arg[c].id, clock)
            /\ expirationChecks' = ChecksAfterUpdate(arg[c].id, clock)
       ELSE UNCHANGED <<sessionExpirations, expirationChecks>>
    /\ readers' = readers \ {c}
    /\ pc' = [pc EXCEPT ![c] = "idle"]
    /\ arg' = [arg EXCEPT ![c] = NoArg]
    /\ UNCHANGED <<sessions, writer, pending, issued, writes>>
    /\ UNCHANGED <<timeVars, workerVars, histVars>>
    /\ UNCHANGED <<limitVars, sigintVars>>

\* session, ok := m.sessions[sessionID]; return (and RUnlock)
GetRead(c) ==
    /\ pc[c] = "getRead"
    /\ ret' = IF arg[c].id \in DOMAIN sessions
              THEN [to |-> c, op |-> "get", id |-> arg[c].id,
                    data |-> sessions[arg[c].id], err |-> Nil]
              ELSE [to |-> c, op |-> "get", id |-> arg[c].id,
                    data |-> Nil, err |-> ErrSessionNotFound]
    /\ readers' = readers \ {c}
    /\ pc' = [pc EXCEPT ![c] = "idle"]
    /\ arg' = [arg EXCEPT ![c] = NoArg]
    /\ UNCHANGED <<writer, pending, issued, writes>>
    /\ UNCHANGED <<mapVars, timeVars, workerVars, histVars>>
    /\ UNCHANGED <<limitVars, sigintVars>>

\* -------------------------------------------------------- UpdateSessionData
\* m.mutex.RLock()
UpdateRLock(c, id, data) ==
    /\ pc[c] = "idle"
    /\ writes < MaxWrites
    /\ CanRLock
    /\ writes' = writes + 1
    /\ readers' = readers \cup {c}
    /\ arg' = [arg EXCEPT ![c] = [id |-> id, data |-> data]]
    /\ pc' = [pc EXCEPT ![c] = "updateCheck"]
    /\ UNCHANGED <<writer, pending, ret, issued>>
    /\ UNCHANGED <<mapVars, timeVars, workerVars, histVars>>
    /\ UNCHANGED <<limitVars, sigintVars>>

\* UpdateCheck as it would be without the early return for a missing session
UpdateCheckNoReturn(c) ==
    /\ pc[c] = "updateCheck"
    /\ readers' = readers \ {c}
    /\ pc' = [pc EXCEPT ![c] = "updateLock"]
    /\ UNCHANGED <<arg, ret, writer, pending, issued, writes>>
    /\ UNCHANGED <<mapVars, timeVars, workerVars, histVars>>
    /\ UNCHANGED <<limitVars, sigintVars>>

\* _, ok := m.sessions[sessionID]; RUnlock; return ErrSessionNotFound if !ok
UpdateCheck(c) ==
    /\ pc[c] = "updateCheck"
    /\ readers' = readers \ {c}
    /\ IF arg[c].id \in DOMAIN sessions
       THEN /\ pc' = [pc EXCEPT ![c] = "updateLock"]
            /\ UNCHANGED <<arg, ret>>
       ELSE /\ pc' = [pc EXCEPT ![c] = "idle"]
            /\ arg' = [arg EXCEPT ![c] = NoArg]
            /\ ret' = [to |-> c, op |-> "update", id |-> arg[c].id, data |-> Nil,
                       err |-> ErrSessionNotFound]
    /\ UNCHANGED <<writer, pending, issued, writes>>
    /\ UNCHANGED <<mapVars, timeVars, workerVars, histVars>>
    /\ UNCHANGED <<limitVars, sigintVars>>

\* m.mutex.Lock()
UpdateLockAsReader(c) ==
    /\ pc[c] = "updateLock"
    /\ writer = NoOne
    /\ readers' = readers \cup {c}
    /\ pc' = [pc EXCEPT ![c] = "updatePut"]
    /\ UNCHANGED <<writer, pending, arg, ret, issued, writes>>
    /\ UNCHANGED <<mapVars, timeVars, workerVars, histVars>>
    /\ UNCHANGED <<limitVars, sigintVars>>

UpdateLock(c) ==
    /\ pc[c] = "updateLock"
    /\ pending = c
    /\ CanLock
    /\ writer' = c
    /\ pc' = [pc EXCEPT ![c] = "updatePut"]
    /\ UNCHANGED <<readers, pending, arg, ret, issued, writes>>
    /\ UNCHANGED <<mapVars, timeVars, workerVars, histVars>>
    /\ UNCHANGED <<limitVars, sigintVars>>

\* UpdatePut as it would be if it only touched an existing session
UpdatePutKeepingData(c) ==
    /\ pc[c] = "updatePut"
    /\ sessions' = IF arg[c].id \in DOMAIN sessions
                   THEN sessions
                   ELSE MapPut(sessions, arg[c].id, arg[c].data)
    /\ pc' = [pc EXCEPT ![c] = "updateExpire"]
    /\ UNCHANGED <<sessionExpirations, expirationChecks>>
    /\ UNCHANGED <<arg, ret, issued, writes>>
    /\ UNCHANGED <<lockVars, timeVars, workerVars, histVars>>
    /\ UNCHANGED <<limitVars, sigintVars>>

\* m.sessions[sessionID] = Session{Data: data}
UpdatePut(c) ==
    /\ pc[c] = "updatePut"
    /\ sessions' = MapPut(sessions, arg[c].id, arg[c].data)
    /\ pc' = [pc EXCEPT ![c] = "updateExpire"]
    /\ UNCHANGED <<sessionExpirations, expirationChecks>>
    /\ UNCHANGED <<arg, ret, issued, writes>>
    /\ UNCHANGED <<lockVars, timeVars, workerVars, histVars>>
    /\ UNCHANGED <<limitVars, sigintVars>>

\* m.updateSessionExpiration(sessionID); return nil (and Unlock)
UpdateExpire(c) ==
    /\ pc[c] = "updateExpire"
    /\ sessionExpirations' = ExpirationsAfterUpdate(arg[c].id, clock)
    /\ expirationChecks' = ChecksAfterUpdate(arg[c].id, clock)
    /\ writer' = NoOne
    /\ pending' = NoOne
    /\ ret' = [to |-> c, op |-> "update", id |-> arg[c].id, data |-> Nil, err |-> Nil]
    /\ pc' = [pc EXCEPT ![c] = "idle"]
    /\ arg' = [arg EXCEPT ![c] = NoArg]
    /\ lastWrite' = MapPut(lastWrite, arg[c].id, clock)
    /\ committed' = MapPut(committed, arg[c].id, arg[c].data)
    /\ UNCHANGED <<sessions, readers, issued, writes, reclaimed>>
    /\ UNCHANGED <<timeVars, workerVars>>
    /\ UNCHANGED <<limitVars, sigintVars>>

\* ---------------------------------------------- removeExpiredSessionsWorker
\* for range m.expirationCheckTicker.C { now := time.Now(); key := ...
WorkerTick ==
    /\ wpc = "wait"
    /\ tickPending
    /\ tickPending' = FALSE
    /\ wNow' = clock
    /\ wKey' = KeyOf(clock)
    /\ wpc' = "rlock"
    /\ UNCHANGED <<clock, nextTick, wExpired>>
    /\ UNCHANGED <<mapVars, lockVars, clientVars, histVars>>
    /\ UNCHANGED <<limitVars, sigintVars>>

\* m.mutex.RLock()
WorkerRLock ==
    /\ wpc = "rlock"
    /\ CanRLock
    /\ readers' = readers \cup {Worker}
    /\ wpc' = "collect"
    /\ UNCHANGED <<writer, pending, wNow, wKey, wExpired>>
    /\ UNCHANGED <<mapVars, timeVars, clientVars, histVars>>
    /\ UNCHANGED <<limitVars, sigintVars>>

\* exp.Add(-10 * time.Millisecond).Before(now)
IsExpired(exp, now) == exp - Tolerance < now

\* the loop over m.expirationChecks[key], reading the index exps
CollectIn(exps, bucket, now) ==
    SelectSeq(bucket, LAMBDA sID :
        /\ sID \in DOMAIN exps
        /\ IsExpired(exps[sID], now))

CollectWholeBucket(bucket, now) == bucket

Collect(bucket, now) == CollectIn(sessionExpirations, bucket, now)

\* WorkerCollect as it would be without m.mutex.RUnlock()
WorkerCollectKeepingRLock ==
    /\ wpc = "collect"
    /\ wExpired' = Collect(MapGetSlice(expirationChecks, wKey), wNow)
    /\ wpc' = "lock"
    /\ UNCHANGED <<writer, readers, pending, wNow, wKey>>
    /\ UNCHANGED <<mapVars, timeVars, clientVars, histVars>>
    /\ UNCHANGED <<limitVars, sigintVars>>

\* the candidate loop, then m.mutex.RUnlock()
WorkerCollect ==
    /\ wpc = "collect"
    /\ wExpired' = Collect(MapGetSlice(expirationChecks, wKey), wNow)
    /\ readers' = readers \ {Worker}
    /\ wpc' = "lock"
    /\ UNCHANGED <<writer, pending, wNow, wKey>>
    /\ UNCHANGED <<mapVars, timeVars, clientVars, histVars>>
    /\ UNCHANGED <<limitVars, sigintVars>>

\* m.mutex.Lock()
WorkerLock ==
    /\ wpc = "lock"
    /\ pending = Worker
    /\ CanLock
    /\ writer' = Worker
    /\ wpc' = "delete"
    /\ UNCHANGED <<readers, pending, wNow, wKey, wExpired>>
    /\ UNCHANGED <<mapVars, timeVars, clientVars, histVars>>
    /\ UNCHANGED <<limitVars, sigintVars>>

\* the ids the deletion loop removes
ToDelete(expired) == Range(expired)

\* WorkerDelete as it would be without delete(m.sessionExpirations, sID)
WorkerDeleteSessionsOnly ==
    /\ wpc = "delete"
    /\ sessions' = MapDelete(sessions, ToDelete(wExpired))
    /\ reclaimed' = reclaimed \cup (ToDelete(wExpired) \cap DOMAIN sessions)
    /\ committed' = MapDelete(committed, ToDelete(wExpired))
    /\ wpc' = "drop"
    /\ UNCHANGED <<sessionExpirations, expirationChecks, lastWrite, wNow, wKey, wExpired>>
    /\ UNCHANGED <<lockVars, timeVars, clientVars>>
    /\ UNCHANGED <<limitVars, sigintVars>>

\* for _, sID := range expiredSessionIDs { delete(...); delete(...) }
WorkerDelete ==
    /\ wpc = "delete"
    /\ sessions' = MapDelete(sessions, ToDelete(wExpired))
    /\ sessionExpirations' = MapDelete(sessionExpirations, ToDelete(wExpired))
    /\ reclaimed' = reclaimed \cup (ToDelete(wExpired) \cap DOMAIN sessions)
    /\ committed' = MapDelete(committed, ToDelete(wExpired))
    /\ wpc' = "drop"
    /\ UNCHANGED <<expirationChecks, lastWrite, wNow, wKey, wExpired>>
    /\ UNCHANGED <<lockVars, timeVars, clientVars>>
    /\ UNCHANGED <<limitVars, sigintVars>>

\* WorkerDrop as it would be without delete(m.expirationChecks, key)
WorkerDropKeepingBucket ==
    /\ wpc = "drop"
    /\ writer' = NoOne
    /\ pending' = NoOne
    /\ wpc' = "wait"
    /\ wExpired' = <<>>
    /\ wNow' = 0
    /\ wKey' = 0
    /\ UNCHANGED <<sessions, sessionExpirations, expirationChecks, readers>>
    /\ UNCHANGED <<timeVars, clientVars, histVars>>
    /\ UNCHANGED <<limitVars, sigintVars>>

\* delete(m.expirationChecks, key); m.mutex.Unlock()
WorkerDrop ==
    /\ wpc = "drop"
    /\ expirationChecks' = MapDelete(expirationChecks, {wKey})
    /\ writer' = NoOne
    /\ pending' = NoOne
    /\ wpc' = "wait"
    /\ wExpired' = <<>>
    /\ wNow' = 0
    /\ wKey' = 0
    /\ UNCHANGED <<sessions, sessionExpirations, readers>>
    /\ UNCHANGED <<timeVars, clientVars, histVars>>
    /\ UNCHANGED <<limitVars, sigintVars>>

\* one pass of the loop body of removeExpiredSessionsWorker for bucket key
\* at time now, run on the maps M with no other goroutine in between
SweepOnce(M, key, now) ==
    LET expired == CollectIn(M.sessionExpirations,
                             MapGetSlice(M.expirationChecks, key), now)
    IN  [sessions |-> MapDelete(M.sessions, ToDelete(expired)),
         sessionExpirations |-> MapDelete(M.sessionExpirations, ToDelete(expired)),
         expirationChecks |-> MapDelete(M.expirationChecks, {key})]

\* ------------------------------------------------------------ m.mutex.Lock
\* p has reached one of the three m.mutex.Lock() calls
AtLock(p) ==
    IF p = Worker THEN wpc = "lock" ELSE pc[p] \in {"createLock", "updateLock"}

\* the first half of m.mutex.Lock(): p becomes the announced writer
LockAnnounce(p) ==
    /\ AtLock(p)
    /\ CanAnnounce
    /\ pending' = p
    /\ UNCHANGED <<writer, readers>>
    /\ UNCHANGED <<mapVars, timeVars, clientVars, workerVars, histVars>>
    /\ UNCHANGED <<limitVars, sigintVars>>

\* ------------------------------------------------------------ specification
ClientStep(c) ==
    \/ CreateFail(c)
    \/ CreateBegin(c)
    \/ CreateLock(c)
    \/ CreatePut(c)
    \/ CreateExpire(c)
    \/ \E id \in SessionIDs : GetRLock(c, id)
    \/ GetRead(c)
    \/ \E id \in SessionIDs, data \in Payloads : UpdateRLock(c, id, data)
    \/ UpdateCheck(c)
    \/ UpdateLock(c)
    \/ UpdatePut(c)
    \/ UpdateExpire(c)

WorkerStep ==
    \/ WorkerTick
    \/ WorkerRLock
    \/ WorkerCollect
    \/ WorkerLock
    \/ WorkerDelete
    \/ WorkerDrop

Next ==
    \/ \E c \in Clients : ClientStep(c)
    \/ WorkerStep
    \/ \E p \in Clients \cup {Worker} : LockAnnounce(p)
    \/ Advance

Spec == Init /\ [][Next]_vars

\* the steps of a call that is under way, for client c
Continue(c) ==
    \/ CreateLock(c)
    \/ CreatePut(c)
    \/ CreateExpire(c)
    \/ GetRead(c)
    \/ UpdateCheck(c)
    \/ UpdateLock(c)
    \/ UpdatePut(c)
    \/ UpdateExpire(c)
    \/ LockAnnounce(c)

\* the steps of the worker goroutine
WorkerContinue == WorkerStep \/ LockAnnounce(Worker)

\* the scheduler keeps running every goroutine that is not blocked; callers
\* are free to make no further call, and time is free to stand still
Fairness ==
    /\ \A c \in Clients : WF_vars(Continue(c))
    /\ WF_vars(WorkerContinue)

\* time passes, within the span over which termination is examined
AdvanceFair ==
    /\ Advance
    /\ clock' <= (StartSecond + FairSeconds) * Second

NextFair ==
    \/ \E c \in Clients : ClientStep(c)
    \/ WorkerStep
    \/ \E p \in Clients \cup {Worker} : LockAnnounce(p)
    \/ AdvanceFair

SpecFair == Init /\ [][NextFair]_vars /\ Fairness

\* =================================================== 3-limit-service-time
\* One User shared by every HandleRequest call.  Request r is one call of
\* HandleRequest: hpc[r] is the position of the caller, tpc[r] of the
\* goroutine ranging over ticker.C, ppc[r] of the goroutine running process.
\* tickerC[r] is the number of ticks waiting in ticker.C (capacity one),
\* loaded[r] the value of u.TimeUsed read by the increment in progress,
\* doneFrom[r] the goroutine whose send on doneCh the caller received.

\* the other two programs do not move
LimitFrame == UNCHANGED <<vars, sigintVars>>

\* calls are numbered in the order in which they are made
HandleStart(r) ==
    /\ hpc[r] = "idle"
    /\ \A q \in Requests : q < r => hpc[q] # "idle"
    /\ hpc' = [hpc EXCEPT ![r] = "recv"]
    /\ tpc' = [tpc EXCEPT ![r] = "range"]
    /\ ppc' = [ppc EXCEPT ![r] = "run"]
    /\ UNCHANGED <<user, tickerC, tickerStopped, loaded, doneFrom, result>>
    /\ LimitFrame

\* the runtime timer fires: a tick is put in ticker.C unless one is waiting
Tick(r) ==
    /\ hpc[r] # "idle"
    /\ ~tickerStopped[r]
    /\ tickerC[r] = 0
    /\ user.TimeUsed < MaxTimeUsed
    /\ tickerC' = [tickerC EXCEPT ![r] = 1]
    /\ UNCHANGED <<user, hpc, tpc, ppc, tickerStopped, loaded, doneFrom, result>>
    /\ LimitFrame

\* for range ticker.C receives a tick; u.TimeUsed += 1 reads u.TimeUsed
TickerTake(r) ==
    /\ tpc[r] = "range"
    /\ tickerC[r] = 1
    /\ tickerC' = [tickerC EXCEPT ![r] = 0]
    /\ loaded' = [loaded EXCEPT ![r] = user.TimeUsed]
    /\ tpc' = [tpc EXCEPT ![r] = "store"]
    /\ UNCHANGED <<user, hpc, ppc, tickerStopped, doneFrom, result>>
    /\ LimitFrame

\* u.TimeUsed += 1 writes the value it read, plus one
TickerStore(r) ==
    /\ tpc[r] = "store"
    /\ user' = [user EXCEPT !.TimeUsed = loaded[r] + 1]
    /\ loaded' = [loaded EXCEPT ![r] = 0]
    /\ tpc' = [tpc EXCEPT ![r] = "check"]
    /\ UNCHANGED <<hpc, ppc, tickerC, tickerStopped, doneFrom, result>>
    /\ LimitFrame

FreeTimeIsOverForAnyUser(u) ==
    u.TimeUsed >= maxFreeProcessingTimeSeconds - 1

FreeTimeIsOver(u) ==
    ~u.IsPremium /\ u.TimeUsed >= maxFreeProcessingTimeSeconds - 1

\* the if of the ticker goroutine
TickerCheck(r) ==
    /\ tpc[r] = "check"
    /\ tpc' = [tpc EXCEPT ![r] = IF FreeTimeIsOver(user) THEN "send" ELSE "range"]
    /\ UNCHANGED <<user, hpc, ppc, tickerC, tickerStopped, loaded, doneFrom, result>>
    /\ LimitFrame

\* process() returns
ProcessFinish(r) ==
    /\ ppc[r] = "run"
    /\ ppc' = [ppc EXCEPT ![r] = "send"]
    /\ UNCHANGED <<user, hpc, tpc, tickerC, tickerStopped, loaded, doneFrom, result>>
    /\ LimitFrame

\* doneCh is unbuffered: the ticker goroutine's send meets <-doneCh, and the
\* goroutine returns
RecvFromTicker(r) ==
    /\ hpc[r] = "recv"
    /\ tpc[r] = "send"
    /\ hpc' = [hpc EXCEPT ![r] = "defer"]
    /\ tpc' = [tpc EXCEPT ![r] = "done"]
    /\ doneFrom' = [doneFrom EXCEPT ![r] = "ticker"]
    /\ UNCHANGED <<user, ppc, tickerC, tickerStopped, loaded, result>>
    /\ LimitFrame

\* the process goroutine's send meets <-doneCh, and the goroutine ends
RecvFromProcess(r) ==
    /\ hpc[r] = "recv"
    /\ ppc[r] = "send"
    /\ hpc' = [hpc EXCEPT ![r] = "defer"]
    /\ ppc' = [ppc EXCEPT ![r] = "done"]
    /\ doneFrom' = [doneFrom EXCEPT ![r] = "process"]
    /\ UNCHANGED <<user, tpc, tickerC, tickerStopped, loaded, result>>
    /\ LimitFrame

\* return true, then the deferred ticker.Stop(); a tick already in ticker.C
\* stays there, and the channel is not closed
HandleReturn(r) ==
    /\ hpc[r] = "defer"
    /\ result' = [result EXCEPT ![r] = "true"]
    /\ tickerStopped' = [tickerStopped EXCEPT ![r] = TRUE]
    /\ hpc' = [hpc EXCEPT ![r] = "returned"]
    /\ UNCHANGED <<user, tpc, ppc, tickerC, loaded, doneFrom>>
    /\ LimitFrame

TickerStep(r) == TickerTake(r) \/ TickerStore(r) \/ TickerCheck(r)

RequestStep(r) ==
    \/ HandleStart(r)
    \/ Tick(r)
    \/ TickerStep(r)
    \/ ProcessFinish(r)
    \/ RecvFromTicker(r)
    \/ RecvFromProcess(r)
    \/ HandleReturn(r)

InitLimit ==
    /\ LimitInit
    /\ SessionInit
    /\ SigintInit

NextLimit == \E r \in Requests : RequestStep(r)

SpecLimit == InitLimit /\ [][NextLimit]_limitVars

\* ================================================================= claims
TTL == ttlSeconds * Second

\* client c returns from the call it is in
Returns(c, from) == pc[c] = from /\ pc'[c] = "idle"

\* the worker removes id from sessions in this step
Reclaims(id) == id \in DOMAIN sessions /\ id \notin DOMAIN sessions' /\ wpc = "delete"

\* C1 - No early deletion: the reclaimer never removes a session from
\* sessions earlier than TTL after the session's most recent successful
\* CreateSession/UpdateSessionData.
NoEarlyDeletion ==
    [][\A id \in SessionIDs :
         (Reclaims(id) /\ id \in DOMAIN lastWrite) => clock >= lastWrite[id] + TTL]_vars

\* C2 - Renewal race is closed: the deletion phase deletes an id only if its
\* authoritative expiration in sessionExpirations, as it stands at deletion
\* time, is expired for the sweep's now.  "At or before now" is read with
\* the worker's own 10 ms tolerance, the reading most favourable to the code.
RenewalRaceClosed ==
    [][\A id \in SessionIDs :
         (Reclaims(id) /\ id \in DOMAIN sessionExpirations)
            => IsExpired(sessionExpirations[id], wNow)]_vars

\* the last second, counted from the last write, in which a session may exist
MaxLifetimeSeconds == 7

\* C3 - Bounded expiration: a session whose last successful create/update
\* happened at T and which is not updated afterwards is absent from sessions
\* and sessionExpirations at every time t >= T + 7 s, once the sweep of that
\* instant has run and no call is in flight.
BoundedExpiration ==
    Quiescent =>
        \A id \in DOMAIN lastWrite :
            clock >= lastWrite[id] + MaxLifetimeSeconds * Second
                => id \notin DOMAIN sessions \cup DOMAIN sessionExpirations

\* C5 - No resurrection: once the reclaimer has removed an id from sessions,
\* that id is never present in sessions again.
NoResurrection == reclaimed \cap DOMAIN sessions = {}

\* C6 - Keep-alive by updates: while less than TTL has passed since the last
\* successful create/update of a session, every GetSessionData on it succeeds.
KeepAlive ==
    [][\A c \in Clients :
         (/\ Returns(c, "getRead")
          /\ arg[c].id \in DOMAIN lastWrite
          /\ clock < lastWrite[arg[c].id] + TTL) => ret'.err = Nil]_vars

\* C4 - Index/session consistency: whenever no goroutine holds the write
\* lock, the ids in sessions are exactly the ids in sessionExpirations.
IndexSessionConsistency ==
    writer = NoOne => DOMAIN sessions = DOMAIN sessionExpirations

\* an update and the worker both wait for the write lock on a live session
IndexSessionConsistencyWitness ==
    /\ writer = NoOne
    /\ DOMAIN sessions # {}
    /\ wpc = "lock"
    /\ \E c \in Clients : pc[c] = "updateLock" /\ arg[c].id \in DOMAIN sessions

\* what GetSessionData returns to c for the maps as they are
GetResult(c) ==
    IF arg[c].id \in DOMAIN sessions
    THEN [to |-> c, op |-> "get", id |-> arg[c].id,
          data |-> sessions[arg[c].id], err |-> Nil]
    ELSE [to |-> c, op |-> "get", id |-> arg[c].id,
          data |-> Nil, err |-> ErrSessionNotFound]

\* C7 - GetSessionData is read-only: a call leaves sessions,
\* sessionExpirations and expirationChecks unchanged, returns
\* ErrSessionNotFound exactly when the id is absent from sessions at the time
\* of the read, and otherwise returns the stored payload.
GetIsReadOnly ==
    [][\A c \in Clients :
         /\ (pc[c] = "idle" /\ pc'[c] = "getRead") => mapVars' = mapVars
         /\ Returns(c, "getRead") => (mapVars' = mapVars /\ ret' = GetResult(c))]_vars

\* a read that came after the write returned the payload and the expiration
\* is still the one the write set
GetIsReadOnlyWitness ==
    /\ ret.op = "get"
    /\ ret.err = Nil
    /\ ret.data \in Payloads
    /\ ret.id \in DOMAIN sessionExpirations
    /\ clock > lastWrite[ret.id]
    /\ sessionExpirations[ret.id] = lastWrite[ret.id] + TTL

\* C8 - Read-after-update: a GetSessionData that runs after an
\* UpdateSessionData(id, p) has returned nil returns exactly p, unless a
\* later update or a reclaim of id has been applied in between.
ReadAfterUpdate ==
    [][\A c \in Clients :
         (Returns(c, "getRead") /\ arg[c].id \in DOMAIN committed)
            => (ret'.err = Nil /\ ret'.data = committed[arg[c].id])]_vars

\* a read has returned the payload of the update that returned before it
ReadAfterUpdateWitness ==
    /\ ret.op = "get"
    /\ ret.id \in DOMAIN committed
    /\ committed[ret.id] \in Payloads
    /\ ret.data = committed[ret.id]

\* C9 - UpdateSessionData on an unknown id: when the id is absent from
\* sessions at the moment of the check, the call returns ErrSessionNotFound
\* and leaves sessions, sessionExpirations and expirationChecks unchanged.
UpdateUnknownIsRejected ==
    [][\A c \in Clients :
         (/\ pc[c] = "updateCheck"
          /\ pc'[c] # "updateCheck"
          /\ arg[c].id \notin DOMAIN sessions)
            => /\ pc'[c] = "idle"
               /\ ret' = [to |-> c, op |-> "update", id |-> arg[c].id,
                          data |-> Nil, err |-> ErrSessionNotFound]
               /\ mapVars' = mapVars
               /\ writer' = writer]_vars

\* an update of a session the worker has reclaimed was rejected
UpdateUnknownIsRejectedWitness ==
    /\ ret.op = "update"
    /\ ret.err = ErrSessionNotFound
    /\ ret.id \in reclaimed
    /\ ret.id \notin DOMAIN sessions

\* C10 - CreateSession: when identifier generation fails the call returns
\* the empty id with the error, never acquires the lock and leaves the maps
\* unchanged; when it succeeds the id is in sessions with an empty payload,
\* in sessionExpirations with now + TTL and appended to the bucket keyed by
\* that expiration's second, all under one hold of the write lock.
CreateIsClean ==
    [][\A c \in Clients :
         /\ (/\ pc[c] = "idle"
             /\ ret' # ret
             /\ ret'.to = c
             /\ ret'.op = "create"
             /\ ret'.err # Nil)
              => /\ ret'.id = NoID
                 /\ pc'[c] = "idle"
                 /\ mapVars' = mapVars
                 /\ lockVars' = lockVars
         /\ pc[c] \in {"createPut", "createExpire"} => writer = c
         /\ Returns(c, "createExpire")
              => LET id == arg[c].id
                     key == KeyOf(clock + TTL)
                 IN  /\ ret' = [to |-> c, op |-> "create", id |-> id,
                                data |-> Nil, err |-> Nil]
                     /\ id \in DOMAIN sessions'
                     /\ sessions'[id] = Empty
                     /\ id \in DOMAIN sessionExpirations'
                     /\ sessionExpirations'[id] = clock + TTL
                     /\ key \in DOMAIN expirationChecks'
                     /\ expirationChecks'[key]
                          = Append(MapGetSlice(expirationChecks, key), id)
                     /\ writer' = NoOne]_vars

\* a CreateSession has returned its id and the session is in all three maps
CreateIsCleanWitness ==
    /\ ret.op = "create"
    /\ ret.err = Nil
    /\ ret.id \in DOMAIN sessions
    /\ sessions[ret.id] = Empty
    /\ sessionExpirations[ret.id] = clock + TTL
    /\ ret.id \in Range(expirationChecks[KeyOf(clock + TTL)])

\* ===================================================== 4-graceful-sigint
\* mpc is the position of main, shutdownSignal the number of signals waiting
\* in the channel, raised the number of SIGINTs sent to the program so far,
\* received the number main has taken from the channel.  runG and stopG are
\* the goroutines started for proc.Run and proc.Stop; stopCalls counts the
\* executions of `go proc.Stop()`.

SigintFrame == UNCHANGED <<vars, limitVars>>

\* a SIGINT reaches the program: signal.Notify relays it with a send that
\* does not block, so it is dropped when the channel is full
SigintDroppedWhenOneWaits ==
    /\ mpc # "exited"
    /\ raised < MaxSignals
    /\ raised' = raised + 1
    /\ shutdownSignal' = IF shutdownSignal < SignalBuffer - 1
                         THEN shutdownSignal + 1 ELSE shutdownSignal
    /\ UNCHANGED <<mpc, received, runG, stopG, stopCalls>>
    /\ SigintFrame

Sigint ==
    /\ mpc # "exited"
    /\ raised < MaxSignals
    /\ raised' = raised + 1
    /\ shutdownSignal' = IF shutdownSignal < SignalBuffer
                         THEN shutdownSignal + 1 ELSE shutdownSignal
    /\ UNCHANGED <<mpc, received, runG, stopG, stopCalls>>
    /\ SigintFrame

\* go proc.Run()
MainGoRun ==
    /\ mpc = "goRun"
    /\ mpc' = "wait1"
    /\ runG' = "spawned"
    /\ UNCHANGED <<shutdownSignal, raised, received, stopG, stopCalls>>
    /\ SigintFrame

\* the first <-shutdownSignal
MainRecvFirst ==
    /\ mpc = "wait1"
    /\ shutdownSignal > 0
    /\ shutdownSignal' = shutdownSignal - 1
    /\ received' = received + 1
    /\ mpc' = "goStop"
    /\ UNCHANGED <<raised, runG, stopG, stopCalls>>
    /\ SigintFrame

\* go proc.Stop()
MainGoStop ==
    /\ mpc = "goStop"
    /\ mpc' = "wait2"
    /\ stopG' = "spawned"
    /\ stopCalls' = stopCalls + 1
    /\ UNCHANGED <<shutdownSignal, raised, received, runG>>
    /\ SigintFrame

\* the second <-shutdownSignal
MainRecvSecond ==
    /\ mpc = "wait2"
    /\ shutdownSignal > 0
    /\ shutdownSignal' = shutdownSignal - 1
    /\ received' = received + 1
    /\ mpc' = "kill"
    /\ UNCHANGED <<raised, runG, stopG, stopCalls>>
    /\ SigintFrame

\* fmt.Printf and os.Exit(1): the goroutines stop where they are
MainExit ==
    /\ mpc = "kill"
    /\ mpc' = "exited"
    /\ UNCHANGED <<shutdownSignal, raised, received, runG, stopG, stopCalls>>
    /\ SigintFrame

\* the goroutine of proc.Run is scheduled and enters Run, which does not
\* return
RunBegin ==
    /\ mpc # "exited"
    /\ runG = "spawned"
    /\ runG' = "running"
    /\ UNCHANGED <<mpc, shutdownSignal, raised, received, stopG, stopCalls>>
    /\ SigintFrame

\* the goroutine of proc.Stop is scheduled and enters Stop
StopBegin ==
    /\ mpc # "exited"
    /\ stopG = "spawned"
    /\ stopG' = "running"
    /\ UNCHANGED <<mpc, shutdownSignal, raised, received, runG, stopCalls>>
    /\ SigintFrame

\* proc.Stop returns
StopFinish ==
    /\ mpc # "exited"
    /\ stopG = "running"
    /\ stopG' = "done"
    /\ UNCHANGED <<mpc, shutdownSignal, raised, received, runG, stopCalls>>
    /\ SigintFrame

MainStep ==
    \/ MainGoRun
    \/ MainRecvFirst
    \/ MainGoStop
    \/ MainRecvSecond
    \/ MainExit

ProcStep == RunBegin \/ StopBegin \/ StopFinish

InitSigint ==
    /\ SigintInit
    /\ SessionInit
    /\ LimitInit /\ ~user.IsPremium /\ user.TimeUsed = UsedBefore

NextSigint == Sigint \/ MainStep \/ ProcStep

\* main is a goroutine the scheduler keeps running whenever it is not
\* blocked on the channel
SpecSigint ==
    InitSigint /\ [][NextSigint]_sigintVars /\ WF_sigintVars(MainStep)

\* session id is listed in the bucket of its authoritative expiration, the
\* bucket the sweep of that second examines
ListedForSweep(id) ==
    id \in Range(MapGetSlice(expirationChecks, KeyOf(sessionExpirations[id])))

\* C15 - dropping a swept bucket loses nothing: whenever no writer is in the
\* middle of a change, every live session is listed in the bucket that
\* matches its current authoritative expiration, so that a sweep still to
\* come examines it.
SweptBucketLosesNothing ==
    writer = NoOne =>
        \A id \in DOMAIN sessions :
            id \in DOMAIN sessionExpirations /\ ListedForSweep(id)

\* goroutine p is at a statement that writes one of the three maps
Mutating(p) ==
    IF p = Worker
    THEN wpc \in {"delete", "drop"}
    ELSE pc[p] \in {"createPut", "createExpire", "updatePut", "updateExpire"}

\* goroutine p is at a statement that reads the maps without writing them
Reading(p) ==
    IF p = Worker
    THEN wpc = "collect"
    ELSE pc[p] \in {"getRead", "updateCheck"}

Goroutines == Clients \cup {Worker}

\* whoever is at a writing statement holds the exclusive lock and is alone
\* in the maps; whoever is at a reading statement holds the read lock
LockPositions ==
    \A p \in Goroutines :
        /\ Mutating(p) =>
              /\ writer = p
              /\ readers = {}
              /\ \A q \in Goroutines \ {p} : ~Mutating(q) /\ ~Reading(q)
        /\ Reading(p) => p \in readers /\ writer = NoOne

\* a step that changes a map is taken by the holder of the exclusive lock,
\* and a step of a goroutine that holds the read lock changes none
MutationUnderLock ==
    /\ mapVars' # mapVars => writer # NoOne /\ Mutating(writer) /\ readers = {}
    /\ readers # {} => mapVars' = mapVars

\* C16 - lock discipline: every mutation of sessions, sessionExpirations or
\* expirationChecks is made by the goroutine that holds the exclusive lock
\* while no other goroutine reads or writes the maps; GetSessionData and the
\* worker's collection phase only read, and only under the read lock.
LockDiscipline ==
    [][MutationUnderLock]_vars /\ []LockPositions

\* a client is writing under the exclusive lock while the worker has a tick
\* to serve and waits for the read lock
LockDisciplineWitness ==
    /\ writer \in Clients
    /\ pc[writer] = "updateExpire"
    /\ wpc = "rlock"

\* the worker finishes its collection phase in this step
Collects == wpc = "collect" /\ wpc' = "lock"

\* C17 - the candidate filter uses the authoritative index: an id listed in
\* the swept bucket is selected exactly if it has an entry in
\* sessionExpirations that, less the tolerance, is before the sweep's now; an
\* id whose expiration was moved past now by an update is not selected, and
\* nothing outside the bucket is.
CandidateFilter ==
    [][Collects =>
          /\ Range(wExpired') \subseteq Range(MapGetSlice(expirationChecks, wKey))
          /\ \A id \in Range(MapGetSlice(expirationChecks, wKey)) :
                id \in Range(wExpired') <=>
                    /\ id \in DOMAIN sessionExpirations
                    /\ sessionExpirations[id] - Tolerance < wNow]_vars

\* a sweep has examined a bucket that lists a session whose expiration was
\* moved to another second by an update, and has selected nothing
CandidateFilterWitness ==
    /\ wpc = "lock"
    /\ wExpired = <<>>
    /\ \A c \in Clients : pc[c] = "idle"
    /\ \E id \in Range(MapGetSlice(expirationChecks, wKey)) :
          /\ id \in DOMAIN sessionExpirations
          /\ KeyOf(sessionExpirations[id]) # wKey
          /\ lastWrite[id] + Second <= wNow

\* the three maps of the manager
Maps ==
    [sessions |-> sessions,
     sessionExpirations |-> sessionExpirations,
     expirationChecks |-> expirationChecks]

\* the worker finishes a sweep in this step
CompletesSweep == wpc = "drop" /\ wpc' = "wait"

\* bucket keys a sweep can be run for
SweepKeys == DOMAIN expirationChecks \cup {KeyOf(clock)}

\* C18 - sweep idempotence: when the worker has finished the sweep of a
\* bucket, running the sweep once more for the same key and the same now,
\* with no client operation in between, changes none of the three maps; and
\* from any state two sweeps in a row give what one gives.  Ids listed in the
\* bucket that are no longer in the index are skipped.
SweepIdempotent ==
    /\ [][CompletesSweep => SweepOnce(Maps', wKey, wNow) = Maps']_vars
    /\ [](\A key \in SweepKeys :
             SweepOnce(SweepOnce(Maps, key, clock), key, clock)
                 = SweepOnce(Maps, key, clock))

\* a sweep is about to finish whose bucket lists an id that was in neither
\* the index nor the session table and that the sweep did not select
SweepIdempotentWitness ==
    /\ wpc = "drop"
    /\ \E id \in Range(MapGetSlice(expirationChecks, wKey)) :
          /\ id \notin DOMAIN sessionExpirations
          /\ id \notin DOMAIN sessions
          /\ id \notin Range(wExpired)

\* C19 - no deadlock in the session store: under fair scheduling every call
\* of CreateSession, GetSessionData and UpdateSessionData that is under way
\* returns, every sweep the worker has started completes both phases, and a
\* goroutine that has announced itself at m.mutex.Lock() gets the lock and
\* gives it back.
NoDeadlock ==
    /\ \A c \in Clients : (pc[c] # "idle") ~> (pc[c] = "idle")
    /\ (wpc # "wait") ~> (wpc = "wait")
    /\ (pending # NoOne) ~> (pending = NoOne)

\* UpdateSessionData has given up the read lock and waits at its Lock()
\* while the worker, between its two phases, waits at its Lock() too, and a
\* reader is still inside
NoDeadlockWitness ==
    /\ wpc = "lock"
    /\ \E c \in Clients : pc[c] = "updateLock"
    /\ readers # {}

\* ------------------------------------------- claims: 3-limit-service-time

\* C11 - the accumulated TimeUsed of a non-premium user never exceeds
\* maxFreeProcessingTimeSeconds, whatever HandleRequest calls are made for
\* that user, one after another or at the same time.
FreeBudgetRespected ==
    ~user.IsPremium => user.TimeUsed <= maxFreeProcessingTimeSeconds

\* the caller of request r has left HandleRequest
Returned(r) == hpc[r] = "returned"

\* request r ended because the ticker goroutine found the free time used up
\* while process was still running
HadToBeKilled(r) == doneFrom[r] = "ticker"

\* C12 - HandleRequest returns false exactly when the process had to be
\* killed because the free time ran out before process finished, and true
\* when process ran to completion.
HandleRequestResult ==
    \A r \in Requests :
        Returned(r) =>
            /\ HadToBeKilled(r) <=> result[r] = "false"
            /\ doneFrom[r] = "process" <=> result[r] = "true"

\* C13 - for a premium user the caller gets past <-doneCh only after process
\* has completed, however large TimeUsed is.
PremiumNeverCutOff ==
    \A r \in Requests :
        user.IsPremium /\ hpc[r] \in {"defer", "returned"} =>
            /\ ppc[r] = "done"
            /\ doneFrom[r] = "process"

\* a premium user's call has returned although the user's TimeUsed is past
\* the free budget, and another call of that user was cut by nothing either
PremiumNeverCutOffWitness ==
    /\ user.IsPremium
    /\ user.TimeUsed > maxFreeProcessingTimeSeconds
    /\ \E r \in Requests : Returned(r) /\ ppc[r] = "done" /\ tpc[r] = "range"

\* a goroutine of request r that can never take another step once the caller
\* has returned: nothing receives from doneCh any more, and the stopped
\* ticker's channel is empty and is never closed
BlockedForever(r) ==
    \/ tpc[r] = "send"
    \/ ppc[r] = "send"
    \/ tpc[r] = "range" /\ tickerStopped[r] /\ tickerC[r] = 0

\* C20 - after HandleRequest returns, neither goroutine it started stays
\* blocked forever on the send to doneCh or on the receive from the stopped
\* ticker's channel.
NoGoroutineLeak ==
    \A r \in Requests : Returned(r) => ~BlockedForever(r)

\* --------------------------------------------- claims: 4-graceful-sigint

\* `go proc.Stop()` has run at most once, and only after main took a first
\* SIGINT from the channel
StopOnceAfterFirstSigint ==
    /\ stopCalls <= 1
    /\ stopCalls = 1 <=> received >= 1 /\ mpc # "goStop"
    /\ stopG # "off" <=> stopCalls = 1

\* os.Exit(1) is reached only after main took a second SIGINT
KillOnlyAfterSecondSigint ==
    mpc \in {"kill", "exited"} => received = 2 /\ raised >= 2 /\ stopCalls = 1

\* C14 - proc.Stop() is started exactly once and only after the first
\* SIGINT has been received; os.Exit(1) is reached only after a second SIGINT
\* has been received; and a second SIGINT always leads to os.Exit(1), even
\* when it arrives while Stop is running or before main has taken the first.
TwoStageShutdown ==
    /\ [](StopOnceAfterFirstSigint /\ KillOnlyAfterSecondSigint)
    /\ (raised >= 1) ~> (stopCalls = 1)
    /\ (raised >= 2) ~> (mpc = "exited")

\* the program was killed by a second SIGINT while proc.Stop was running,
\* with no further signal waiting
TwoStageShutdownWitness ==
    /\ mpc = "exited"
    /\ raised = 2
    /\ stopG = "running"

====
